---- MODULE Spec2Model ----
(***************************************************************************)
(* agentcraft-backend: the Gemini provider client (gemini.service.ts) and  *)
(* the conversation orchestration and thread persistence of               *)
(* chat.service.ts, as a state machine.                                    *)
(*                                                                         *)
(* Every request handler is an async function: it runs without            *)
(* interruption between two awaits, so each action below is "the awaited  *)
(* I/O takes effect, then the handler runs up to its next await".  The    *)
(* position of a request is neutral about which I/O it waits for.         *)
(*                                                                         *)
(* Strings are sequences of one-character strings.  Temperature and topP  *)
(* are kept in hundredths (0.7 is 70).  Every clock read returns a fresh, *)
(* larger value.                                                           *)
(***************************************************************************)
EXTENDS Integers, Sequences, FiniteSets, TLC

\* ------------------------------------------------------------------ bounds
MaxCalls == 2
MaxThreads == 1
MaxHistory == 12
MaxTextLen == 5
MaxUsers == 3

Procs == {1, 2}

\* ------------------------------------------------------------ JS strings
WS == {" ", "\t", "\n", "\r"}
NL == {"\n", "\r"}

IsBlank(s) == \A i \in 1..Len(s) : s[i] \in WS

\* the first position at or after i, the last position at or before i, that
\* holds no whitespace (s has one)
RECURSIVE FirstNonWs(_, _)
FirstNonWs(s, i) == IF s[i] \notin WS THEN i ELSE FirstNonWs(s, i + 1)

RECURSIVE LastNonWs(_, _)
LastNonWs(s, i) == IF s[i] \notin WS THEN i ELSE LastNonWs(s, i - 1)

\* String.prototype.trim
Trim(s) ==
  IF IsBlank(s) THEN <<>>
  ELSE SubSeq(s, FirstNonWs(s, 1), LastNonWs(s, Len(s)))

\* end of the maximal whitespace run that starts at i (i-1 if s[i] is no whitespace)
WsRunEnd(s, i) ==
  LET stops == {j \in i..Len(s) : s[j] \notin WS}
  IN IF stops = {} THEN Len(s)
     ELSE (CHOOSE j \in stops : \A k \in stops : j <= k) - 1

\* last line break of the whitespace run i..e, 0 if it has none
LastNL(s, i, e) ==
  LET nls == {j \in i..e : s[j] \in NL}
  IN IF nls = {} THEN 0 ELSE CHOOSE j \in nls : \A k \in nls : k <= j

\* .replace(/^\s*[\r\n]+/gm, '')
RECURSIVE StripBlankLines(_, _)
StripBlankLines(s, i) ==
  IF i > Len(s) THEN <<>>
  ELSE LET lineStart == (i = 1) \/ (s[i - 1] \in NL)
           last == LastNL(s, i, WsRunEnd(s, i))
       IN IF lineStart /\ last # 0
          THEN StripBlankLines(s, last + 1)
          ELSE <<s[i]>> \o StripBlankLines(s, i + 1)

\* .replace(/\s*[\r\n]+\s*/g, '\n')
RECURSIVE NormalizeBreaks(_, _)
NormalizeBreaks(s, i) ==
  IF i > Len(s) THEN <<>>
  ELSE LET e == WsRunEnd(s, i)
       IN IF e >= i /\ LastNL(s, i, e) # 0
          THEN <<"\n">> \o NormalizeBreaks(s, e + 1)
          ELSE <<s[i]>> \o NormalizeBreaks(s, i + 1)

\* CollapseSpaces for /\s{2}/g: every pair of whitespace becomes one space
RECURSIVE CollapseSpacesPairs(_, _)
CollapseSpacesPairs(s, i) ==
  IF i > Len(s) THEN <<>>
  ELSE IF WsRunEnd(s, i) >= i + 1
       THEN <<" ">> \o CollapseSpacesPairs(s, i + 2)
       ELSE <<s[i]>> \o CollapseSpacesPairs(s, i + 1)

\* .replace(/\s{2,}/g, ' ')
RECURSIVE CollapseSpaces(_, _)
CollapseSpaces(s, i) ==
  IF i > Len(s) THEN <<>>
  ELSE LET e == WsRunEnd(s, i)
       IN IF e >= i + 1
          THEN <<" ">> \o CollapseSpaces(s, e + 1)
          ELSE <<s[i]>> \o CollapseSpaces(s, i + 1)

cleanResponse(response) ==
  CollapseSpaces(NormalizeBreaks(StripBlankLines(Trim(response), 1), 1), 1)

\* ------------------------------------------------------------------ errors
\* an Error object: its class, GeminiError.code, GeminiError.statusCode (0 when
\* it has none) and its message
NoError == [cls |-> "none", code |-> "none", status |-> 0, msg |-> "none"]
PlainError(msg) == [cls |-> "Error", code |-> "none", status |-> 0, msg |-> msg]
GeminiError(msg, status, code) ==
  [cls |-> "GeminiError", code |-> code, status |-> status, msg |-> msg]
GeminiAPIError(msg, status) ==
  [cls |-> "GeminiAPIError", code |-> "API_ERROR", status |-> status, msg |-> msg]
GeminiTimeoutError(msg) ==
  [cls |-> "GeminiTimeoutError", code |-> "TIMEOUT_ERROR", status |-> 408, msg |-> msg]

IsGeminiError(e) == e.cls \in {"GeminiError", "GeminiAPIError", "GeminiTimeoutError"}

\* messages of the errors the transport (undici request) rejects with
ConnRefusedMsg == "connect ECONNREFUSED"
DnsMsg == "getaddrinfo ENOTFOUND"
HeadersTimeoutMsg == "Headers Timeout Error"
SocketTimeoutMsg == "read ETIMEDOUT"
JsonSyntaxMsg == "Unexpected token < in JSON"

\* error.message.includes('timeout') || error.message.includes('ETIMEDOUT')
MentionsTimeout(msg) == msg \in {SocketTimeoutMsg}
\* error.message.includes('ENOTFOUND') || error.message.includes('ECONNREFUSED')
MentionsNetwork(msg) == msg \in {ConnRefusedMsg, DnsMsg}

handleGeminiError(error) ==
  IF IsGeminiError(error) THEN error
  ELSE IF MentionsTimeout(error.msg)
       THEN GeminiTimeoutError("Request timeout - Gemini API did not respond in time")
  ELSE IF MentionsNetwork(error.msg)
       THEN GeminiError("Network error - Cannot reach Gemini API", 503, "NETWORK_ERROR")
  ELSE GeminiError(error.msg, 500, "UNKNOWN_ERROR")

ApiErrorText(error) ==
  IF error.msg = "provider text" THEN "API error: provider text"
  ELSE "API error: other"

handleChatError(error) ==
  IF IsGeminiError(error)
  THEN CASE error.code = "VALIDATION_ERROR" -> PlainError("Validation failed")
         [] error.code = "API_ERROR" ->
              IF error.status = 401 THEN PlainError("Invalid API key")
              ELSE IF error.status = 403 THEN PlainError("API access forbidden")
              ELSE IF error.status = 429
                   THEN PlainError("Rate limit exceeded. Please try again later.")
              ELSE IF error.status = 503 THEN PlainError("Service temporarily unavailable")
              ELSE PlainError(ApiErrorText(error))
         [] error.code = "TIMEOUT_ERROR" -> PlainError("Request timeout. Please try again.")
         [] error.code = "NETWORK_ERROR" ->
              PlainError("Network error. Please check your connection.")
         [] OTHER -> PlainError(error.msg)
  ELSE error

\* chatHandler's catch block: the HTTP status it answers with for an Error.
\* The tests are error.message.includes(...) for 'Validation failed',
\* 'API key', 'Rate limit exceeded' and 'Service temporarily unavailable' or
\* 'timeout' (the needles 'at least 5 characters', 'Invalid Hugging Face API
\* key' and 'Model unavailable' occur in no message of ChatService).
chatHandlerStatus(error) ==
  IF error.msg \in {"Validation failed"} THEN 400
  ELSE IF error.msg \in {"Invalid API key"} THEN 503
  ELSE IF error.msg \in {"Rate limit exceeded. Please try again later."} THEN 429
  ELSE IF error.msg \in {"Service temporarily unavailable",
                         "Request timeout. Please try again."} THEN 503
  ELSE 500

\* ----------------------------------------------------------- configuration
UndefNum == 0 - 1
UndefStr == "undefined"

ConfigKeys == {"model", "temperature", "topK", "topP", "maxOutputTokens",
               "timeout", "maxRetries", "retryDelay"}
ChatConfigKeys == ConfigKeys \ {"retryDelay"}

Undefined(k) == IF k = "model" THEN UndefStr ELSE UndefNum

GEMINI_DEFAULT_CONFIG ==
  [model |-> "gemini-1.5-flash", temperature |-> 70, topK |-> 40, topP |-> 95,
   maxOutputTokens |-> 2048, timeout |-> 30000, maxRetries |-> 2, retryDelay |-> 1000]

CHAT_DEFAULT_CONFIG ==
  [model |-> "gemini-1.5-flash", temperature |-> 70, topK |-> 40, topP |-> 95,
   maxOutputTokens |-> 2048, timeout |-> 30000, maxRetries |-> 2]

\* GeminiService.updateConfig: { ...this.config, ...newConfig }
GeminiUpdateConfig(cfg, newConfig) ==
  [k \in DOMAIN cfg \cup DOMAIN newConfig |->
     IF k \in DOMAIN newConfig THEN newConfig[k] ELSE cfg[k]]

\* ChatService.validateConfig: TRUE when it does not throw
validateConfig(c) ==
  /\ "temperature" \in DOMAIN c => ~(c.temperature < 0 \/ c.temperature > 200)
  /\ "topP" \in DOMAIN c => ~(c.topP < 0 \/ c.topP > 100)
  /\ "topK" \in DOMAIN c => ~(c.topK < 1 \/ c.topK > 100)
  /\ "maxOutputTokens" \in DOMAIN c => ~(c.maxOutputTokens < 1 \/ c.maxOutputTokens > 8192)
  /\ "timeout" \in DOMAIN c => ~(c.timeout < 5000 \/ c.timeout > 120000)
  /\ "maxRetries" \in DOMAIN c => ~(c.maxRetries < 0 \/ c.maxRetries > 5)

\* the object ChatService.updateConfig hands to GeminiService.updateConfig: all
\* seven keys are present, a key the caller did not supply holds undefined
MapChatConfig(newConfig) ==
  [k \in ChatConfigKeys |-> IF k \in DOMAIN newConfig THEN newConfig[k] ELSE Undefined(k)]

ChatUpdateConfig(cfg, newConfig) == GeminiUpdateConfig(cfg, MapChatConfig(newConfig))

\* configuration objects an admin submits
ConfigUpdates ==
  { [model |-> "gemini-1.5-pro", temperature |-> 50, topK |-> 40, topP |-> 95,
     maxOutputTokens |-> 1024, timeout |-> 5000, maxRetries |-> 1],
    [model |-> "gemini-pro", temperature |-> 70, topK |-> 40, topP |-> 95,
     maxOutputTokens |-> 2048, timeout |-> 60000, maxRetries |-> 0],
    [temperature |-> 20],
    [temperature |-> 250] }

\* ------------------------------------------------------- provider responses
\* what one HTTP attempt yields: a response (status, body) or a rejection of
\* the transport.  fmt/shape/text describe a 200 body, errmsg is
\* error.message of an error body ("none": absent or unparseable) or the
\* message of the transport error.
Texts == { <<" ", "o", " ", " ", "k", "\n", " ", "\n", "!", " ">>,
           <<" ", "\n">> }

Http(status, fmt, shape, text, errmsg) ==
  [kind |-> "http", status |-> status, fmt |-> fmt, shape |-> shape,
   text |-> text, errmsg |-> errmsg]

Responses ==
  {Http(200, "json", "ok", t, "none") : t \in Texts}
  \cup {Http(200, "json", sh, <<>>, "none") : sh \in {"nocandidates", "noparts"}}
  \cup {Http(200, "garbage", "none", <<>>, "none")}
  \cup {Http(st, "none", "none", <<>>, "none") : st \in {401, 403, 429}}
  \cup {Http(st, "none", "none", <<>>, m) :
          st \in {302, 404, 500, 503}, m \in {"none", "provider text"}}
  \cup {[kind |-> "reject", status |-> 0, fmt |-> "none", shape |-> "none",
         text |-> <<>>, errmsg |-> m] :
          m \in {ConnRefusedMsg, HeadersTimeoutMsg, SocketTimeoutMsg}}

\* the class of an attempt's outcome
Class(r) ==
  IF r.kind = "reject"
  THEN (IF r.errmsg = ConnRefusedMsg THEN "network" ELSE "timeout")
  ELSE IF r.status = 200 THEN (IF r.fmt = "json" THEN "200" ELSE "200garbage")
  ELSE IF r.status = 429 THEN "429"
  ELSE IF r.status >= 400 /\ r.status < 500 THEN "4xx"
  ELSE IF r.status >= 500 THEN "5xx"
  ELSE "other"

\* ------------------------------------------------- callGeminiAPI, one attempt
\* attempt <= this.config.maxRetries (false when maxRetries is undefined)
LoopTest(attempt, cfg) == cfg.maxRetries # UndefNum /\ attempt <= cfg.maxRetries

\* RetryLeft with the comparison off by one
RetryLeftInclusive(attempt, cfg) == cfg.maxRetries # UndefNum /\ attempt <= cfg.maxRetries

\* attempt < this.config.maxRetries
RetryLeft(attempt, cfg) == cfg.maxRetries # UndefNum /\ attempt < cfg.maxRetries

RECURSIVE Pow2(_)
Pow2(n) == IF n = 0 THEN 1 ELSE 2 * Pow2(n - 1)

\* BackoffDelay without the exponent
BackoffDelayFlat(attempt, cfg) ==
  IF cfg.retryDelay = UndefNum THEN UndefNum ELSE cfg.retryDelay

\* this.config.retryDelay * Math.pow(2, attempt)
BackoffDelay(attempt, cfg) ==
  IF cfg.retryDelay = UndefNum THEN UndefNum ELSE cfg.retryDelay * Pow2(attempt)

\* errorMessage: parsedError.error?.message || `Gemini API error: ${statusCode}`
ErrorMessage(r) == IF r.errmsg # "none" THEN r.errmsg ELSE "Gemini API error"

\* TryBlock that returns on every 200, without decoding the body
TryBlockAny200(r, attempt, cfg) ==
  IF r.kind = "reject" THEN [act |-> "throw", error |-> PlainError(r.errmsg)]
  ELSE IF r.status = 200
       THEN [act |-> "return", error |-> NoError]
  ELSE IF r.status = 401
       THEN [act |-> "throw", error |-> GeminiAPIError("Invalid API key", 401)]
  ELSE IF r.status = 403
       THEN [act |-> "throw",
             error |-> GeminiAPIError("API access forbidden - check permissions", 403)]
  ELSE IF r.status = 429
       THEN (IF RetryLeft(attempt, cfg) THEN [act |-> "retry", error |-> NoError]
             ELSE [act |-> "throw", error |-> GeminiAPIError("Rate limit exceeded", 429)])
  ELSE IF r.status >= 500 /\ RetryLeft(attempt, cfg)
       THEN [act |-> "retry", error |-> NoError]
  ELSE [act |-> "throw", error |-> GeminiAPIError(ErrorMessage(r), r.status)]

\* the try block: "return" the body, "retry" (sleep, then continue) or
\* "throw" error into the catch block
TryBlock(r, attempt, cfg) ==
  IF r.kind = "reject" THEN [act |-> "throw", error |-> PlainError(r.errmsg)]
  ELSE IF r.status = 200
       THEN (IF r.fmt = "json" THEN [act |-> "return", error |-> NoError]
             ELSE [act |-> "throw", error |-> PlainError(JsonSyntaxMsg)])
  ELSE IF r.status = 401
       THEN [act |-> "throw", error |-> GeminiAPIError("Invalid API key", 401)]
  ELSE IF r.status = 403
       THEN [act |-> "throw",
             error |-> GeminiAPIError("API access forbidden - check permissions", 403)]
  ELSE IF r.status = 429
       THEN (IF RetryLeft(attempt, cfg) THEN [act |-> "retry", error |-> NoError]
             ELSE [act |-> "throw", error |-> GeminiAPIError("Rate limit exceeded", 429)])
  ELSE IF r.status >= 500 /\ RetryLeft(attempt, cfg)
       THEN [act |-> "retry", error |-> NoError]
  ELSE [act |-> "throw", error |-> GeminiAPIError(ErrorMessage(r), r.status)]

\* IsClientError that knows the authentication statuses only
IsClientErrorAuthOnly(error) ==
  error.cls = "GeminiAPIError" /\ error.status \in {401, 403}

\* Don't retry on client errors (4xx except 429)
IsClientError(error) ==
  /\ error.cls = "GeminiAPIError"
  /\ error.status # 0
  /\ error.status >= 400
  /\ error.status < 500
  /\ error.status # 429

\* CatchBlock that retries whatever the attempt index is
CatchBlockAlwaysRetry(error, attempt, cfg) ==
  IF IsClientError(error) THEN "rethrow" ELSE "retry"

\* the catch block: "rethrow" out of callGeminiAPI, "retry", or "exhausted"
\* (fall out of the loop, whose test fails, and throw lastError)
CatchBlock(error, attempt, cfg) ==
  IF IsClientError(error) THEN "rethrow"
  ELSE IF RetryLeft(attempt, cfg) THEN "retry"
  ELSE "exhausted"

\* Attempt that keeps the first error caught and surfaces it at the end
AttemptKeepFirstError(r, attempt, cfg, lastError) ==
  LET t == TryBlock(r, attempt, cfg)
      e == IF lastError # NoError THEN lastError ELSE t.error
  IN IF t.act # "throw" THEN [act |-> t.act, error |-> NoError, lastError |-> lastError]
     ELSE LET c == CatchBlock(t.error, attempt, cfg)
          IN IF c = "retry"
             THEN [act |-> "retry", error |-> NoError, lastError |-> e]
             ELSE IF c = "rethrow"
                  THEN [act |-> "throw", error |-> t.error, lastError |-> e]
                  ELSE [act |-> "throw", error |-> e, lastError |-> e]

\* what one attempt's outcome makes of the call: act is "return", "retry" or
\* "throw" (out of callGeminiAPI), lastError the new value of lastError
Attempt(r, attempt, cfg, lastError) ==
  LET t == TryBlock(r, attempt, cfg)
  IN IF t.act # "throw" THEN [act |-> t.act, error |-> NoError, lastError |-> lastError]
     ELSE LET c == CatchBlock(t.error, attempt, cfg)
          IN IF c = "retry"
             THEN [act |-> "retry", error |-> NoError, lastError |-> t.error]
             ELSE [act |-> "throw", error |-> t.error, lastError |-> t.error]

\* throw lastError || new GeminiError('Max retries exceeded')
ExhaustedError(lastError) ==
  IF lastError # NoError THEN lastError ELSE GeminiError("Max retries exceeded", 0, "none")

\* ---------------------------------------------------- processGeminiResponse
\* ResponseError that takes any text
ResponseErrorAnyText(body) ==
  IF body.shape = "nocandidates"
  THEN GeminiError("No candidates in response", 500, "INVALID_RESPONSE")
  ELSE IF body.shape = "noparts"
       THEN GeminiError("No content in response candidate", 500, "INVALID_RESPONSE")
  ELSE NoError

\* the error it throws, NoError when it returns
ResponseError(body) ==
  IF body.shape = "nocandidates"
  THEN GeminiError("No candidates in response", 500, "INVALID_RESPONSE")
  ELSE IF body.shape = "noparts"
       THEN GeminiError("No content in response candidate", 500, "INVALID_RESPONSE")
  ELSE IF body.text = <<>> \/ Len(Trim(body.text)) = 0
       THEN GeminiError("Empty response generated", 500, "EMPTY_RESPONSE")
  ELSE NoError

\* validateInput of ChatService and of GeminiService: the message of the error
\* it throws, "none" when the prompt passes
MaxPromptLen == 30000

\* validateInput without the limit on the length
validateInputNoLimit(prompt) ==
  IF prompt = <<>> THEN "Prompt is required and must be a string"
  ELSE IF Len(Trim(prompt)) = 0 THEN "Prompt cannot be empty"
  ELSE "none"

validateInput(prompt) ==
  IF prompt = <<>> THEN "Prompt is required and must be a string"
  ELSE IF Len(Trim(prompt)) = 0 THEN "Prompt cannot be empty"
  ELSE IF Len(prompt) > MaxPromptLen
       THEN "Prompt exceeds maximum length of 30,000 characters"
  ELSE "none"

\* -------------------------------------------------------------------- state
VARIABLES
  config,     \* GeminiService.config of the exported singleton
  threads,    \* the ChatThread collection
  messages,   \* the ChatMessage collection
  now,        \* the clock
  nextThread, \* next ObjectId of a thread
  nextMsg,    \* next ObjectId of a message
  procs,      \* the requests in progress, one record per slot
  calls,      \* requests to the thread endpoints started so far
  users,      \* the User collection
  nextUser,   \* next ObjectId of a user
  logins      \* the calls of findOrCreateUser in progress, one record per slot

chatVars == <<config, threads, messages, now, nextThread, nextMsg, procs, calls>>
authVars == <<users, nextUser, logins>>
vars == <<config, threads, messages, now, nextThread, nextMsg, procs, calls,
          users, nextUser, logins>>

Users == {"u1", "u2"}
\* a thread id a request names: 0 is not a valid ObjectId, the others are
BadId == 0
RequestIds == 0..MaxThreads
Prompts == { <<" ", "h", "i", "\n">>, <<" ">> }

\* prompts of the chat endpoint: those above, no prompt at all, and prompts of
\* 30001 and of 30000 characters
LongPrompt == [i \in 1..MaxPromptLen + 1 |-> "x"]
MaxPrompt == [i \in 1..MaxPromptLen |-> "x"]
ChatPrompts == Prompts \cup {<<>>, LongPrompt, MaxPrompt, <<"h", "e", "l", "l", "o">>}

\* sanitizePrompt ends with .slice(0, 2000)
MaxSanitizedLen == 2000

\* prompt is a value chatHandler hands to getChatResponse: trimmed by the
\* request schema and by sanitizePrompt, cut to 2000 characters
Sanitized(prompt) == prompt = Trim(prompt) /\ Len(prompt) <= MaxSanitizedLen

\* a Google profile: its id and emails[0]?.value ("none": no email)
Profiles == {[id |-> g, email |-> e] : g \in {"g1", "g2"}, e \in {"a@x", "b@x", "none"}}

NoUser == [id |-> 0, googleId |-> "none", email |-> "none"]

\* a slot of findOrCreateUser: the profile, user (the document in hand),
\* the result, and how (which branch the call took)
IdleLogin == [pc |-> "idle", profile |-> [id |-> "none", email |-> "none"],
              user |-> NoUser, status |-> "none", result |-> NoUser, how |-> "none"]

NoMsg == [id |-> 0, threadId |-> 0, role |-> "none", content |-> <<>>, createdAt |-> 0]
NoResult == [status |-> "none", error |-> NoError, answer |-> <<>>, model |-> "none",
             list |-> <<>>, userMessage |-> NoMsg, assistantMessage |-> NoMsg]

\* the values a call of callGeminiAPI works with when it reads all of them from
\* cfg: the retry budget, the timeout, the backoff base, the model of the url
\* and the model it reports
Reads(cfg) ==
  [maxRetries |-> cfg.maxRetries, timeout |-> cfg.timeout, retryDelay |-> cfg.retryDelay,
   model |-> cfg.model, reported |-> cfg.model]

\* a request slot.  Fields of the program: op, pc, user, thread, prompt,
\* ctx (context), contents (of the request body), model (the model in the
\* url), attempt, lastError,
\* timeout (of the pending HTTP request), delay (of the pending sleep),
\* pending (the document being saved), userMsg/asstMsg (saved documents),
\* touchDate, result.  History of the request, for the properties: attempts,
\* sleeps, uniform (the class of the attempts' outcomes when all have the same
\* one, else "mixed"), last (the class of the latest outcome), shape and text
\* (of the 200 body that callGeminiAPI returned), thrown (the error that
\* callGeminiAPI or processGeminiResponse threw),
\* cfg0 (configuration when callGeminiAPI was entered), used (the values the
\* call has read from this.config, see Reads), changed (the configuration was
\* changed while the call was in flight), found (what the ownership lookup
\* met), ctxRead, writes (documents created, changed or deleted), ids (ids of
\* the documents the request built), upd0 (updatedAt of the thread when the
\* ownership lookup ran), stage (where the request failed).
IdleProc ==
  [op |-> "idle", pc |-> "idle", user |-> "none", thread |-> 0, prompt |-> <<>>,
   ctx |-> <<>>, contents |-> <<>>, model |-> "none", attempt |-> 0, lastError |-> NoError,
   timeout |-> 0, delay |-> 0, pending |-> NoMsg, userMsg |-> NoMsg,
   asstMsg |-> NoMsg, touchDate |-> 0, result |-> NoResult,
   attempts |-> 0, sleeps |-> 0, uniform |-> "none", last |-> "none",
   shape |-> "none", text |-> <<>>,
   thrown |-> NoError, cfg0 |-> GEMINI_DEFAULT_CONFIG,
   used |-> Reads(GEMINI_DEFAULT_CONFIG), changed |-> FALSE,
   found |-> "none", ctxRead |-> FALSE, writes |-> 0, ids |-> {}, upd0 |-> 0,
   stage |-> "none"]

ErrorResult(e) == [NoResult EXCEPT !.status = "error", !.error = e]

\* the handler returned or threw: its locals are gone, the history stays
Done(rec, result) ==
  [rec EXCEPT !.pc = "done", !.result = result, !.ctx = <<>>, !.contents = <<>>,
              !.model = "none",
              !.attempt = 0, !.lastError = NoError, !.timeout = 0, !.delay = 0,
              !.pending = NoMsg, !.touchDate = 0]

\* ------------------------------------------- the provider call of a request
\* callGeminiAPI threw error e
CallFailed(rec, e, cfg) ==
  LET r == [rec EXCEPT !.stage = "generate", !.thrown = e]
  IN IF rec.op = "health"
     THEN Done([r EXCEPT !.used = [@ EXCEPT !.reported = cfg.model]],
               [NoResult EXCEPT !.status = "offline", !.model = cfg.model,
                                !.error = PlainError(e.msg)])
     ELSE Done(r, ErrorResult(handleChatError(handleGeminiError(e))))

\* the request failed at stage st with error e
Fail(rec, st, e) == Done([rec EXCEPT !.stage = st], ErrorResult(e))

\* the loop head of callGeminiAPI: test, then issue the request of this attempt
LoopHead(rec, attempt, cfg) ==
  IF LoopTest(attempt, cfg)
  THEN [rec EXCEPT !.pc = "http", !.attempt = attempt, !.timeout = cfg.timeout,
                   !.delay = 0, !.attempts = @ + 1,
                   !.used = [@ EXCEPT !.maxRetries = cfg.maxRetries,
                                      !.timeout = cfg.timeout]]
  ELSE CallFailed([rec EXCEPT !.used = [@ EXCEPT !.maxRetries = cfg.maxRetries]],
                  ExhaustedError(rec.lastError), cfg)

\* GeminiService.buildConversationContext: the turns of the context with
\* assistant renamed to model, then the trimmed prompt as a user turn
buildConversationContext(prompt, context) ==
  [i \in 1..Len(context) |->
     [role |-> IF context[i].role = "assistant" THEN "model" ELSE "user",
      text |-> context[i].content]]
  \o <<[role |-> "user", text |-> Trim(prompt)]>>

\* testContents of checkHealth
TestContents == <<[role |-> "user", text |-> <<"H", "e", "l", "l", "o">>]>>

\* the request body is built, then callGeminiAPI is entered
BeginCall(rec, cfg) ==
  LoopHead([rec EXCEPT !.contents = IF rec.op = "health" THEN TestContents
                                    ELSE buildConversationContext(rec.prompt, rec.ctx),
                       !.model = cfg.model, !.lastError = NoError, !.cfg0 = cfg,
                       !.used = Reads(cfg), !.changed = FALSE],
           0, cfg)

\* callGeminiAPI returned body: checkHealth reports online; generateResponse
\* runs processGeminiResponse, sendMessageToThread then saves the answer
CallReturned(rec, body, cfg) ==
  IF rec.op = "health"
  THEN Done([rec EXCEPT !.used = [@ EXCEPT !.reported = cfg.model]],
            [NoResult EXCEPT !.status = "online", !.model = cfg.model])
  ELSE IF ResponseError(body) # NoError
       THEN Fail([rec EXCEPT !.shape = body.shape, !.text = body.text,
                             !.thrown = ResponseError(body)],
                 "normalize", handleChatError(handleGeminiError(ResponseError(body))))
  ELSE LET answer == cleanResponse(body.text)
           r == [rec EXCEPT !.used = [@ EXCEPT !.reported = cfg.model],
                            !.shape = body.shape, !.text = body.text]
       IN IF rec.op = "chat"
          THEN Done(r, [NoResult EXCEPT !.status = "ok", !.answer = answer,
                                        !.model = cfg.model])
          ELSE [r EXCEPT !.pc = "saveAsst", !.timeout = 0, !.ids = @ \cup {nextMsg},
                         !.pending = [id |-> nextMsg, threadId |-> rec.thread,
                                      role |-> "assistant", content |-> Trim(answer),
                                      createdAt |-> now]]

\* the handler issued a save: the document took an id and the clock was read
IssuedSave(old, new) == new.pc \in {"saveUser", "saveAsst"} /\ new.pc # old.pc

\* new Date() of the thread update
IssuedTouch(old, new) == new.pc = "touch" /\ old.pc # "touch"

NextStamps(old, new) ==
  /\ now' = IF IssuedSave(old, new) \/ IssuedTouch(old, new) THEN now + 1 ELSE now
  /\ nextMsg' = IF IssuedSave(old, new) THEN nextMsg + 1 ELSE nextMsg

\* no user yet, no call of findOrCreateUser in progress
InitAuth ==
  /\ users = {}
  /\ nextUser = 1
  /\ logins = [p \in Procs |-> IdleLogin]

Init ==
  /\ config = GeminiUpdateConfig(GEMINI_DEFAULT_CONFIG, CHAT_DEFAULT_CONFIG)
  /\ threads = {}
  /\ messages = {}
  /\ now = 1
  /\ nextThread = 1
  /\ nextMsg = 1
  /\ procs = [p \in Procs |-> IdleProc]
  /\ calls = 0
  /\ InitAuth

\* ChatService.getChatResponse called by the chat endpoint (userId is only logged)
StartChat(p, prompt) ==
  /\ procs[p].pc = "idle"
  /\ LET rec == [IdleProc EXCEPT !.op = "chat", !.prompt = prompt]
         new == IF validateInput(prompt) # "none"
                THEN Fail(rec, "validate", handleChatError(PlainError(validateInput(prompt))))
                ELSE BeginCall(rec, config)
     IN /\ procs' = [procs EXCEPT ![p] = new]
        /\ NextStamps(procs[p], new)
  /\ UNCHANGED <<authVars, config, threads, messages, nextThread, calls>>

\* GeminiService.checkHealth via ChatService.checkHealth
StartHealth(p) ==
  /\ procs[p].pc = "idle"
  /\ LET new == BeginCall([IdleProc EXCEPT !.op = "health"], config)
     IN /\ procs' = [procs EXCEPT ![p] = new]
        /\ NextStamps(procs[p], new)
  /\ UNCHANGED <<authVars, config, threads, messages, nextThread, calls>>

\* the pending HTTP request of p is answered with r
HttpResponse(p, r) ==
  /\ procs[p].pc = "http"
  /\ LET rec == [procs[p] EXCEPT
                   !.uniform = IF @ \in {"none", Class(r)} THEN Class(r) ELSE "mixed",
                   !.last = Class(r)]
         a == Attempt(r, rec.attempt, config, rec.lastError)
         new == IF a.act = "return" THEN CallReturned(rec, r, config)
                ELSE IF a.act = "retry"
                     THEN [rec EXCEPT !.pc = "sleep", !.lastError = a.lastError,
                                      !.timeout = 0,
                                      !.delay = BackoffDelay(rec.attempt, config),
                                      !.sleeps = @ + 1,
                                      !.used = [@ EXCEPT !.maxRetries = config.maxRetries,
                                                         !.retryDelay = config.retryDelay]]
                ELSE CallFailed([rec EXCEPT
                                   !.used = [@ EXCEPT !.maxRetries = config.maxRetries]],
                                a.error, config)
     IN /\ procs' = [procs EXCEPT ![p] = new]
        /\ NextStamps(procs[p], new)
  /\ UNCHANGED <<authVars, config, threads, messages, nextThread, calls>>

\* the backoff sleep of p is over: attempt++ and the loop head
SleepOver(p) ==
  /\ procs[p].pc = "sleep"
  /\ LET new == LoopHead(procs[p], procs[p].attempt + 1, config)
     IN /\ procs' = [procs EXCEPT ![p] = new]
        /\ NextStamps(procs[p], new)
  /\ UNCHANGED <<authVars, config, threads, messages, nextThread, calls>>

\* ChatService.updateConfig called by the admin endpoint; it throws, and
\* changes nothing, when validateConfig rejects c
UpdateConfig(c) ==
  /\ config' = IF validateConfig(c) THEN ChatUpdateConfig(config, c) ELSE config
  /\ procs' = [p \in Procs |->
                 IF procs[p].pc \in {"http", "sleep"} /\ config' # config
                 THEN [procs[p] EXCEPT !.changed = TRUE] ELSE procs[p]]
  /\ UNCHANGED <<authVars, threads, messages, now, nextThread, nextMsg, calls>>

\* the result went to the caller, the slot is free again
Return(p) ==
  /\ procs[p].pc = "done"
  /\ procs' = [procs EXCEPT ![p] = IdleProc]
  /\ UNCHANGED <<authVars, config, threads, messages, now, nextThread, nextMsg, calls>>

\* ------------------------------------------------------------ thread store
ContextLimit == 10
MaxContentLen == 50000

\* Types.ObjectId.isValid
IsValidId(id) == id # BadId

\* FindThread that looks the thread up by its id alone
FindThreadAnyOwner(tid, uid) == {t \in threads : t.id = tid}

\* ChatThread.findOne({ _id, userId }): the matching threads (none or one)
FindThread(tid, uid) == {t \in threads : t.id = tid /\ t.userId = uid}

\* what the lookup met, for the history of the request
Met(tid, uid) ==
  IF \E t \in threads : t.id = tid /\ t.userId = uid THEN "owned"
  ELSE IF \E t \in threads : t.id = tid THEN "foreign"
  ELSE "absent"

UpdatedAt(tid) ==
  IF \E t \in threads : t.id = tid THEN (CHOOSE t \in threads : t.id = tid).updatedAt ELSE 0

\* .sort({ createdAt: 1 })
RECURSIVE SortAsc(_)
SortAsc(ms) ==
  IF ms = {} THEN <<>>
  ELSE LET m == CHOOSE x \in ms : \A y \in ms : x.createdAt <= y.createdAt
       IN <<m>> \o SortAsc(ms \ {m})

\* .limit(n)
Limit(seq, n) == IF Len(seq) <= n THEN seq ELSE SubSeq(seq, 1, n)

ThreadMessages(tid) == {m \in messages : m.threadId = tid}

\* ChatMessage.find({ threadId }).sort({ createdAt: 1 }).limit(10)
PreviousMessages(tid) == Limit(SortAsc(ThreadMessages(tid)), ContextLimit)

\* document validation of ChatMessage.save(): content is required (after the
\* schema's trim) and at most 50000 characters long
ValidMessage(m) == Len(m.content) > 0 /\ Len(m.content) <= MaxContentLen

NotFoundError == PlainError("Thread not found or access denied")

\* LookupError that tells a thread of another owner from a missing one
LookupErrorLeaky(tid, uid) ==
  IF \E t \in threads : t.id = tid THEN PlainError("Access denied") ELSE NotFoundError

\* if (!thread) throw new Error('Thread not found or access denied')
LookupError(tid, uid) == NotFoundError

\* UserContent without any trimming
UserContentRaw(prompt) == prompt

\* the user message's content: request.content.trim(), then the schema's trim
UserContent(prompt) == Trim(Trim(prompt))

\* Saved that keeps the document of a refused save
SavedAnyway(docs, doc, stored) == docs \cup {doc}

\* the collection after a save of doc that the store took (stored) or refused
Saved(docs, doc, stored) == IF stored THEN docs \cup {doc} ELSE docs

\* the validation of the ids and the issue of the ownership lookup, common to
\* sendMessageToThread, getThreadMessages and deleteThread
StartThreadOp(p, op, u, t, prompt) ==
  /\ procs[p].pc = "idle"
  /\ calls < MaxCalls
  /\ calls' = calls + 1
  /\ LET rec == [IdleProc EXCEPT !.op = op, !.user = u, !.thread = t, !.prompt = prompt]
     IN procs' = [procs EXCEPT ![p] =
                    IF ~IsValidId(t) THEN Fail(rec, "ids", PlainError("Invalid thread ID"))
                    ELSE [rec EXCEPT !.pc = "findThread"]]
  /\ UNCHANGED <<authVars, config, threads, messages, now, nextThread, nextMsg>>

StartSend(p, u, t, prompt) == StartThreadOp(p, "send", u, t, prompt)
StartGet(p, u, t) == StartThreadOp(p, "get", u, t, <<>>)
StartDelete(p, u, t) == StartThreadOp(p, "delete", u, t, <<>>)

\* the ownership lookup answers: not found, or on to the next query of the op
FoundThread(p) ==
  /\ procs[p].pc = "findThread"
  /\ LET rec == [procs[p] EXCEPT !.found = Met(procs[p].thread, procs[p].user),
                                 !.upd0 = UpdatedAt(procs[p].thread)]
     IN procs' = [procs EXCEPT ![p] =
                    IF FindThread(rec.thread, rec.user) = {}
                    THEN Fail(rec, "lookup", LookupError(rec.thread, rec.user))
                    ELSE [rec EXCEPT !.pc = CASE rec.op = "send" -> "loadCtx"
                                              [] rec.op = "get" -> "findMsgs"
                                              [] OTHER -> "delMsgs"]]
  /\ UNCHANGED <<authVars, config, threads, messages, now, nextThread, nextMsg, calls>>

\* sendMessageToThread: the context query answers; the user message is built
\* and its save issued
LoadedContext(p) ==
  /\ procs[p].pc = "loadCtx"
  /\ LET rec == procs[p]
         context == [i \in 1..Len(PreviousMessages(rec.thread)) |->
                       [role |-> PreviousMessages(rec.thread)[i].role,
                        content |-> PreviousMessages(rec.thread)[i].content]]
         new == [rec EXCEPT !.pc = "saveUser", !.ctx = context, !.ctxRead = TRUE,
                            !.ids = @ \cup {nextMsg},
                            !.pending = [id |-> nextMsg, threadId |-> rec.thread,
                                         role |-> "user", content |-> UserContent(rec.prompt),
                                         createdAt |-> now]]
     IN /\ procs' = [procs EXCEPT ![p] = new]
        /\ NextStamps(rec, new)
  /\ UNCHANGED <<authVars, config, threads, messages, nextThread, calls>>

\* sendMessageToThread: the save of the user message answers (stored says
\* whether the store took the write); then getChatResponse up to its request
SavedUserMessage(p, stored) ==
  /\ procs[p].pc = "saveUser"
  /\ LET rec == procs[p]
         ok == ValidMessage(rec.pending) /\ stored
         saved == [rec EXCEPT !.userMsg = rec.pending, !.pending = NoMsg, !.writes = @ + 1]
         new == IF ~ValidMessage(rec.pending)
                THEN Fail(rec, "saveUser", PlainError("ChatMessage validation failed"))
                ELSE IF ~stored THEN Fail(rec, "saveUser", PlainError("store write failed"))
                ELSE IF validateInput(rec.prompt) # "none"
                     THEN Fail(saved, "validate",
                               handleChatError(PlainError(validateInput(rec.prompt))))
                ELSE BeginCall(saved, config)
     IN /\ messages' = Saved(messages, rec.pending, ok)
        /\ procs' = [procs EXCEPT ![p] = new]
        /\ NextStamps(rec, new)
  /\ UNCHANGED <<authVars, config, threads, nextThread, calls>>

\* sendMessageToThread: the save of the assistant message answers; then the
\* update of the thread is issued with new Date()
SavedAssistantMessage(p, stored) ==
  /\ procs[p].pc = "saveAsst"
  /\ LET rec == procs[p]
         ok == ValidMessage(rec.pending) /\ stored
         new == IF ~ValidMessage(rec.pending)
                THEN Fail(rec, "saveAsst", PlainError("ChatMessage validation failed"))
                ELSE IF ~stored THEN Fail(rec, "saveAsst", PlainError("store write failed"))
                ELSE [rec EXCEPT !.pc = "touch", !.asstMsg = rec.pending, !.pending = NoMsg,
                                 !.writes = @ + 1, !.touchDate = now]
     IN /\ messages' = Saved(messages, rec.pending, ok)
        /\ procs' = [procs EXCEPT ![p] = new]
        /\ NextStamps(rec, new)
  /\ UNCHANGED <<authVars, config, threads, nextThread, calls>>

\* Touch that never moves updatedAt backwards
TouchIfLater(ts, tid, date) ==
  {IF t.id = tid /\ date > t.updatedAt THEN [t EXCEPT !.updatedAt = date] ELSE t : t \in ts}

\* findByIdAndUpdate(threadId, { updatedAt: date }) applied to the threads ts:
\* the document takes the date whatever it holds, no document: no change
Touch(ts, tid, date) ==
  {IF t.id = tid THEN [t EXCEPT !.updatedAt = date] ELSE t : t \in ts}

\* ChatThread.findByIdAndUpdate(threadId, { updatedAt }) answers; both saved
\* messages are returned
TouchedThread(p) ==
  /\ procs[p].pc = "touch"
  /\ LET rec == procs[p]
         hit == \E t \in threads : t.id = rec.thread
     IN /\ threads' = Touch(threads, rec.thread, rec.touchDate)
        /\ procs' = [procs EXCEPT ![p] =
                       Done([rec EXCEPT !.writes = IF hit THEN @ + 1 ELSE @],
                            [NoResult EXCEPT !.status = "ok", !.userMessage = rec.userMsg,
                                             !.assistantMessage = rec.asstMsg])]
  /\ UNCHANGED <<authVars, config, messages, now, nextThread, nextMsg, calls>>

\* getThreadMessages: ChatMessage.find({ threadId }).sort({ createdAt: 1 }) answers
FoundMessages(p) ==
  /\ procs[p].pc = "findMsgs"
  /\ procs' = [procs EXCEPT ![p] =
                 Done(procs[p], [NoResult EXCEPT !.status = "ok",
                                   !.list = SortAsc(ThreadMessages(procs[p].thread))])]
  /\ UNCHANGED <<authVars, config, threads, messages, now, nextThread, nextMsg, calls>>

\* deleteThread: ChatMessage.deleteMany({ threadId }) answers
DeletedMessages(p) ==
  /\ procs[p].pc = "delMsgs"
  /\ messages' = messages \ ThreadMessages(procs[p].thread)
  /\ procs' = [procs EXCEPT ![p] =
                 [procs[p] EXCEPT !.pc = "delThread",
                                  !.writes = @ + Cardinality(ThreadMessages(procs[p].thread))]]
  /\ UNCHANGED <<authVars, config, threads, now, nextThread, nextMsg, calls>>

\* deleteThread: ChatThread.findByIdAndDelete(threadId) answers
DeletedThread(p) ==
  /\ procs[p].pc = "delThread"
  /\ threads' = {t \in threads : t.id # procs[p].thread}
  /\ procs' = [procs EXCEPT ![p] =
                 Done([procs[p] EXCEPT !.writes =
                         IF \E t \in threads : t.id = procs[p].thread THEN @ + 1 ELSE @],
                      [NoResult EXCEPT !.status = "ok"])]
  /\ UNCHANGED <<authVars, config, messages, now, nextThread, nextMsg, calls>>

\* createThread
CreateThread(u) ==
  /\ nextThread <= MaxThreads
  /\ threads' = threads \cup {[id |-> nextThread, userId |-> u, createdAt |-> now,
                               updatedAt |-> now]}
  /\ nextThread' = nextThread + 1
  /\ now' = now + 1
  /\ UNCHANGED <<authVars, config, messages, nextMsg, procs, calls>>

\* the provider's answers in the specification of the thread endpoints
ThreadResponses ==
  { Http(200, "json", "ok", <<" ", "o", " ", " ", "k", "\n", " ", "\n", "!", " ">>, "none"),
    Http(200, "json", "nocandidates", <<>>, "none"),
    Http(429, "none", "none", <<>>, "none") }

\* the provider's answers to a send to a thread with a history: those above
\* and the other 200 bodies that processGeminiResponse refuses
HistoryResponses ==
  ThreadResponses
  \cup { Http(200, "json", "noparts", <<>>, "none"),
         Http(200, "json", "ok", <<>>, "none"),
         Http(200, "json", "ok", <<" ", "\n">>, "none") }

\* the one request slot of the specification of the provider client
ProviderProcs == {1}

\* the provider client under one request at a time and configuration updates
NextProvider ==
  \/ \E p \in ProviderProcs, prompt \in ChatPrompts : StartChat(p, prompt)
  \/ \E p \in ProviderProcs : StartHealth(p)
  \/ \E p \in ProviderProcs, r \in Responses : HttpResponse(p, r)
  \/ \E p \in ProviderProcs : SleepOver(p)
  \/ \E c \in ConfigUpdates : UpdateConfig(c)
  \/ \E p \in ProviderProcs : Return(p)

SpecProvider == Init /\ [][NextProvider]_vars

\* every HTTP request is answered or fails (the transport enforces
\* headersTimeout and bodyTimeout), and every sleep ends
SpecProviderLive ==
  /\ SpecProvider
  /\ \A p \in ProviderProcs :
       /\ WF_vars(\E r \in Responses : HttpResponse(p, r))
       /\ WF_vars(SleepOver(p))

\* a thread of u1 with a stored history of n messages, written by earlier
\* sends: user and assistant turns in the order of their creation
Alphabet == <<"a", "b", "c", "d", "e", "f", "g", "h", "i", "j", "k", "l", "m", "n", "o">>

HistoryMessage(i) ==
  [id |-> i, threadId |-> 1, role |-> IF i % 2 = 1 THEN "user" ELSE "assistant",
   content |-> <<Alphabet[i]>>, createdAt |-> i + 1]

InitHistory ==
  \E n \in 0..MaxHistory :
    /\ config = GeminiUpdateConfig(GEMINI_DEFAULT_CONFIG, CHAT_DEFAULT_CONFIG)
    /\ threads = {[id |-> 1, userId |-> "u1", createdAt |-> 1, updatedAt |-> n + 2]}
    /\ messages = {HistoryMessage(i) : i \in 1..n}
    /\ now = n + 3
    /\ nextThread = 2
    /\ nextMsg = n + 1
    /\ procs = [p \in Procs |-> IdleProc]
    /\ calls = 0
    /\ InitAuth

\* sends of the owner, one at a time, to a thread that has a history
NextHistory ==
  \/ \E prompt \in Prompts : StartSend(1, "u1", 1, prompt)
  \/ FoundThread(1)
  \/ LoadedContext(1)
  \/ \E stored \in BOOLEAN : SavedUserMessage(1, stored)
  \/ \E r \in HistoryResponses : HttpResponse(1, r)
  \/ SleepOver(1)
  \/ \E stored \in BOOLEAN : SavedAssistantMessage(1, stored)
  \/ TouchedThread(1)
  \/ Return(1)

SpecHistory == InitHistory /\ [][NextHistory]_vars

\* contents of every length: those above and one of 30001 characters
LongSendPrompts == Prompts \cup {LongPrompt}

\* sends of the owner, one at a time, with contents of every length
NextLongSend ==
  \/ \E prompt \in LongSendPrompts : StartSend(1, "u1", 1, prompt)
  \/ FoundThread(1)
  \/ LoadedContext(1)
  \/ \E stored \in BOOLEAN : SavedUserMessage(1, stored)
  \/ \E r \in ThreadResponses : HttpResponse(1, r)
  \/ SleepOver(1)
  \/ \E stored \in BOOLEAN : SavedAssistantMessage(1, stored)
  \/ TouchedThread(1)
  \/ Return(1)

SpecLongSend == InitHistory /\ [][NextLongSend]_vars

\* the texts of at most MaxTextLen characters, whitespace of every kind included
TextChars == {"a", " ", "\t", "\n", "\r"}
AllTexts == UNION {[1..n -> TextChars] : n \in 0..MaxTextLen}

\* a text x to be cleaned: prompt keeps x, text holds the current string
InitClean ==
  /\ config = GeminiUpdateConfig(GEMINI_DEFAULT_CONFIG, CHAT_DEFAULT_CONFIG)
  /\ threads = {}
  /\ messages = {}
  /\ now = 1
  /\ nextThread = 1
  /\ nextMsg = 1
  /\ calls = 0
  /\ InitAuth
  /\ \E x \in AllTexts :
       procs = [p \in Procs |->
                  IF p = 1 THEN [IdleProc EXCEPT !.op = "clean", !.pc = "clean",
                                                 !.prompt = x, !.text = x]
                  ELSE IdleProc]

\* cleanResponse applied to the current string; the result of the first
\* application goes to answer, the result of the second stays in text
Clean(p) ==
  /\ procs[p].pc \in {"clean", "cleaned"}
  /\ procs' = [procs EXCEPT ![p] =
                 IF procs[p].pc = "clean"
                 THEN [procs[p] EXCEPT !.pc = "cleaned", !.text = cleanResponse(@),
                                       !.result = [NoResult EXCEPT !.status = "ok",
                                                     !.answer = cleanResponse(procs[p].text)]]
                 ELSE [procs[p] EXCEPT !.pc = "done", !.text = cleanResponse(@)]]
  /\ UNCHANGED <<authVars, config, threads, messages, now, nextThread, nextMsg, calls>>

NextClean == Clean(1)

SpecClean == InitClean /\ [][NextClean]_vars

\* error answers of the provider, each status with and without a message in
\* its error body
ErrorResponses ==
  {Http(st, "none", "none", <<>>, m) : st \in {404, 429, 500}, m \in {"none", "provider text"}}

\* two chat requests side by side, answered with errors
NextTwoRuns ==
  \/ \E p \in Procs : StartChat(p, <<"h", "e", "l", "l", "o">>)
  \/ \E p \in Procs, r \in ErrorResponses : HttpResponse(p, r)
  \/ \E p \in Procs : SleepOver(p)
  \/ \E p \in Procs : Return(p)

SpecTwoRuns == Init /\ [][NextTwoRuns]_vars

\* ------------------------------------------------------------- user store
\* DuplicateKey of a collection without unique indexes
DuplicateKeyNoIndex(docs, doc) == FALSE

\* the unique indexes on googleId and on email refuse the write of doc
DuplicateKey(docs, doc) ==
  \E u \in docs : u.id # doc.id /\ (u.googleId = doc.googleId \/ u.email = doc.email)

LoginDone(rec, status, result) ==
  [rec EXCEPT !.pc = "done", !.status = status, !.result = result, !.user = NoUser]

\* findOrCreateUser is called; the lookup by Google ID is issued
StartLogin(p, profile) ==
  /\ logins[p].pc = "idle"
  /\ nextUser <= MaxUsers
  /\ logins' = [logins EXCEPT ![p] = [IdleLogin EXCEPT !.pc = "findGoogle",
                                                       !.profile = profile]]
  /\ UNCHANGED <<chatVars, users, nextUser>>

\* findUserByGoogleId answers: the user is returned; or the lookup by email
\* is issued; or, without an email, createUserFromGoogleProfile throws
FoundByGoogleId(p) ==
  /\ logins[p].pc = "findGoogle"
  /\ LET rec == logins[p]
         hit == {u \in users : u.googleId = rec.profile.id}
     IN logins' = [logins EXCEPT ![p] =
                     IF hit # {}
                     THEN LoginDone([rec EXCEPT !.how = "existing"], "ok", CHOOSE u \in hit : TRUE)
                     ELSE IF rec.profile.email # "none"
                          THEN [rec EXCEPT !.pc = "findEmail"]
                     ELSE LoginDone([rec EXCEPT !.how = "noEmail"], "error", NoUser)]
  /\ UNCHANGED <<chatVars, users, nextUser>>

\* findUserByEmail answers: the user found takes the profile's Google ID and
\* its save is issued; or a new user is built and its save is issued
FoundByEmail(p) ==
  /\ logins[p].pc = "findEmail"
  /\ LET rec == logins[p]
         hit == {u \in users : u.email = rec.profile.email}
     IN IF hit # {}
        THEN /\ logins' = [logins EXCEPT ![p] =
                             [rec EXCEPT !.pc = "saveLink", !.how = "linked",
                                         !.user = [(CHOOSE u \in hit : TRUE) EXCEPT
                                                     !.googleId = rec.profile.id]]]
             /\ nextUser' = nextUser
        ELSE /\ logins' = [logins EXCEPT ![p] =
                             [rec EXCEPT !.pc = "saveNew", !.how = "created",
                                         !.user = [id |-> nextUser,
                                                   googleId |-> rec.profile.id,
                                                   email |-> rec.profile.email]]]
             /\ nextUser' = nextUser + 1
  /\ UNCHANGED <<chatVars, users>>

\* user.save() answers: the store took the write, or a unique index refused it
SavedUser(p) ==
  /\ logins[p].pc \in {"saveLink", "saveNew"}
  /\ LET rec == logins[p]
         doc == rec.user
     IN IF DuplicateKey(users, doc)
        THEN /\ users' = users
             /\ logins' = [logins EXCEPT ![p] = LoginDone(rec, "error", NoUser)]
        ELSE /\ users' = IF rec.pc = "saveNew" THEN users \cup {doc}
                         ELSE {IF u.id = doc.id THEN [u EXCEPT !.googleId = doc.googleId]
                               ELSE u : u \in users}
             /\ logins' = [logins EXCEPT ![p] = LoginDone(rec, "ok", doc)]
  /\ UNCHANGED <<chatVars, nextUser>>

\* the result went to the caller
ReturnLogin(p) ==
  /\ logins[p].pc = "done"
  /\ logins' = [logins EXCEPT ![p] = IdleLogin]
  /\ UNCHANGED <<chatVars, users, nextUser>>

\* concurrent sign-ins
NextAuth ==
  \/ \E p \in Procs, profile \in Profiles : StartLogin(p, profile)
  \/ \E p \in Procs : FoundByGoogleId(p)
  \/ \E p \in Procs : FoundByEmail(p)
  \/ \E p \in Procs : SavedUser(p)
  \/ \E p \in Procs : ReturnLogin(p)

SpecAuth == Init /\ [][NextAuth]_vars

\* the thread endpoints under concurrent requests
Next ==
  \/ \E u \in Users : CreateThread(u)
  \/ \E p \in Procs, u \in Users, t \in RequestIds, prompt \in Prompts : StartSend(p, u, t, prompt)
  \/ \E p \in Procs, u \in Users, t \in RequestIds : StartGet(p, u, t)
  \/ \E p \in Procs, u \in Users, t \in RequestIds : StartDelete(p, u, t)
  \/ \E p \in Procs : FoundThread(p)
  \/ \E p \in Procs : LoadedContext(p)
  \/ \E p \in Procs, stored \in BOOLEAN : SavedUserMessage(p, stored)
  \/ \E p \in Procs, r \in ThreadResponses : HttpResponse(p, r)
  \/ \E p \in Procs : SleepOver(p)
  \/ \E p \in Procs, stored \in BOOLEAN : SavedAssistantMessage(p, stored)
  \/ \E p \in Procs : TouchedThread(p)
  \/ \E p \in Procs : FoundMessages(p)
  \/ \E p \in Procs : DeletedMessages(p)
  \/ \E p \in Procs : DeletedThread(p)
  \/ \E p \in Procs : Return(p)

Spec == Init /\ [][Next]_vars

\* ================================================================ properties
\* C1: a generate call whose attempts were all answered with 429 (all with a
\* 5xx status), under a configuration with maxRetries >= 0 that was not
\* changed while the call ran, made exactly maxRetries+1 attempts and failed
\* with the rate-limit error (the provider's 5xx error); its caller got the
\* rate-limited error.
C1_RetryBudget ==
  \A p \in Procs :
    LET r == procs[p]
    IN (r.pc = "done" /\ r.op = "chat" /\ ~r.changed /\ r.cfg0.maxRetries # UndefNum
        /\ r.cfg0.maxRetries >= 0 /\ r.uniform \in {"429", "5xx"})
       => /\ r.attempts = r.cfg0.maxRetries + 1
          /\ r.sleeps = r.cfg0.maxRetries
          /\ r.result.status = "error"
          /\ r.uniform = "429" =>
               /\ r.thrown = GeminiAPIError("Rate limit exceeded", 429)
               /\ r.result.error = PlainError("Rate limit exceeded. Please try again later.")
          /\ r.uniform = "5xx" =>
               /\ r.thrown.cls = "GeminiAPIError"
               /\ r.thrown.status >= 500

C1_Witness ==
  \E p \in Procs :
    /\ procs[p].pc = "done" /\ procs[p].op = "chat" /\ ~procs[p].changed
    /\ procs[p].cfg0.maxRetries = 2 /\ procs[p].uniform = "429"
    /\ procs[p].attempts = 3
    /\ procs[p].result.error = PlainError("Rate limit exceeded. Please try again later.")

\* C2: an attempt answered with 401, 403 or another 4xx status except 429 ends
\* the call at once with an error: no backoff sleep and no further attempt
\* follow it, and when it was the first attempt the call made exactly one
\* attempt and never slept, whatever maxRetries is.
C2_ClientErrorFatal ==
  \A p \in Procs :
    LET r == procs[p]
    IN r.last = "4xx"
       => /\ r.pc = "done"
          /\ r.result.status \in {"error", "offline"}
          /\ r.thrown.cls = "GeminiAPIError"
          /\ r.thrown.status >= 400 /\ r.thrown.status < 500
          /\ r.sleeps = r.attempts - 1
          /\ r.uniform = "4xx" => (r.attempts = 1 /\ r.sleeps = 0)

C2_Witness ==
  \E p \in Procs :
    /\ procs[p].pc = "done" /\ procs[p].op = "chat" /\ procs[p].uniform = "4xx"
    /\ procs[p].thrown.status = 404
    /\ procs[p].cfg0.maxRetries = 2 /\ procs[p].attempts = 1

\* C3 (as claimed): once an attempt of a call has received HTTP 200, whatever
\* its body, the call makes no further HTTP attempt.
C3_NoAttemptAfter200 ==
  \A p \in Procs :
    (procs[p].op = "chat" /\ procs[p].last \in {"200", "200garbage"})
      => procs[p].pc # "http"

\* C4 (as claimed): every configuration value a call works with is the one of
\* the configuration at the start of the call.
C4_ConfigSnapshot ==
  \A p \in Procs : procs[p].used = Reads(procs[p].cfg0)

\* C5 (as claimed): a health check makes one HTTP attempt, never a second one,
\* and never sleeps for a backoff.
C5_HealthSingleAttempt ==
  \A p \in Procs :
    procs[p].op = "health" => (procs[p].attempts <= 1 /\ procs[p].sleeps = 0)

ThreadOps == {"send", "get", "delete"}

\* p takes a step that ends its request
Ends(p) == procs[p].pc # "done" /\ procs'[p].pc = "done"

\* C6: sendMessageToThread, getThreadMessages and deleteThread on a thread
\* that does not exist or belongs to another user fail with the not-found
\* error right at the ownership lookup, and neither that step nor the start
\* of the request changes a thread or a message; the request read no context,
\* made no provider attempt and built or wrote no document.
C6_Inv ==
  \A p \in Procs :
    LET r == procs[p]
    IN (r.pc = "done" /\ r.op \in ThreadOps /\ r.found \in {"absent", "foreign"})
       => /\ r.result = ErrorResult(NotFoundError)
          /\ r.stage = "lookup"
          /\ ~r.ctxRead
          /\ r.attempts = 0
          /\ r.writes = 0
          /\ r.ids = {}
          /\ r.userMsg = NoMsg /\ r.asstMsg = NoMsg

C6_Step ==
  \A p \in Procs :
    /\ (Ends(p) /\ procs'[p].found \in {"absent", "foreign"})
         => (procs[p].pc = "findThread" /\ UNCHANGED <<threads, messages>>)
    /\ (procs[p].pc = "idle" /\ procs'[p].op \in ThreadOps)
         => UNCHANGED <<threads, messages>>

C6_NotFoundNoEffect == []C6_Inv /\ [][C6_Step]_vars

C6_Witness ==
  \E p \in Procs :
    /\ procs[p].pc = "done" /\ procs[p].op = "send" /\ procs[p].found = "foreign"
    /\ procs[p].result = ErrorResult(NotFoundError)
    /\ \E t \in threads : t.id = procs[p].thread /\ t.userId # procs[p].user

\* what a request did and what its caller got
Outcome(r) == <<r.result, r.ctxRead, r.attempts, r.sleeps, r.writes, r.ids,
                r.userMsg, r.asstMsg>>

\* C7: a request on an existing thread of another user ends for its caller
\* exactly as the same operation on a thread id that does not exist: the
\* same error and the same absence of effects.
C7_NoExistenceLeak ==
  \A p, q \in Procs :
    (/\ procs[p].pc = "done" /\ procs[q].pc = "done"
     /\ procs[p].op \in ThreadOps /\ procs[q].op = procs[p].op
     /\ procs[p].found = "foreign" /\ procs[q].found = "absent")
    => Outcome(procs[p]) = Outcome(procs[q])

C7_Witness ==
  \E p, q \in Procs :
    /\ procs[p].pc = "done" /\ procs[q].pc = "done"
    /\ procs[p].op = "get" /\ procs[q].op = "get"
    /\ procs[p].found = "foreign" /\ procs[q].found = "absent"
    /\ procs[p].thread = procs[q].thread

\* C8 (as claimed): when the provider call or the normalization of its answer
\* fails in sendMessageToThread, the call ends with an error and no message
\* of that call is in the store.
C8_NothingPersistedOnProviderFailure ==
  \A p \in Procs :
    LET r == procs[p]
    IN (r.pc = "done" /\ r.op = "send" /\ r.stage \in {"generate", "normalize"})
       => /\ r.result.status = "error"
          /\ \A m \in messages : m.id \notin r.ids

Contains(seq, x) == \E i \in 1..Len(seq) : seq[i] = x

\* C9: when the save of the assistant message fails after the user message
\* was saved, the call returns an error, the failed save leaves the messages
\* as they were (the user message is not rolled back, no step of a send
\* removes a message), no assistant message of that call is stored, and a
\* read of the thread after the failure lists the stored user message and no
\* other message of that call.
C9_Inv ==
  \A p \in Procs :
    LET r == procs[p]
    IN (r.pc = "done" /\ r.op = "send" /\ r.stage = "saveAsst")
       => /\ r.result.status = "error"
          /\ r.userMsg # NoMsg /\ r.userMsg.role = "user"
          /\ r.asstMsg = NoMsg
          /\ \A m \in messages : m.id \in r.ids => m = r.userMsg

C9_Step ==
  /\ \A p \in Procs :
       /\ (procs[p].pc = "saveAsst" /\ procs'[p].pc = "done") => messages' = messages
       /\ (procs[p].op = "send" /\ procs'[p] # procs[p]) => messages \subseteq messages'
  /\ \A q \in Procs :
       (procs[q].pc = "findMsgs" /\ procs'[q].pc = "done")
       => \A p \in Procs :
            LET r == procs[p]
                list == procs'[q].result.list
            IN (r.pc = "done" /\ r.op = "send" /\ r.stage = "saveAsst"
                /\ r.thread = procs[q].thread)
               => /\ r.userMsg \in messages => Contains(list, r.userMsg)
                  /\ \A i \in 1..Len(list) : list[i].id \in r.ids => list[i] = r.userMsg

C9_UserMessageSurvives == []C9_Inv /\ [][C9_Step]_vars

C9_Witness ==
  \E p, q \in Procs :
    /\ procs[p].pc = "done" /\ procs[p].op = "send" /\ procs[p].stage = "saveAsst"
    /\ procs[p].result.status = "error"
    /\ procs[p].userMsg \in messages
    /\ procs[q].pc = "done" /\ procs[q].op = "get" /\ procs[q].thread = procs[p].thread
    /\ procs[q].result.list = <<procs[p].userMsg>>

\* C10: a successful sendMessageToThread wrote exactly two messages into the
\* thread, first the user message with the trimmed prompt, then the assistant
\* message with the cleaned provider text; only after both it sets the
\* thread's updatedAt, to a time later than the one the thread had when the
\* call looked it up and later than both messages; the caller gets the two
\* saved messages.
C10_Inv ==
  \A p \in Procs :
    LET r == procs[p]
        um == r.result.userMessage
        am == r.result.assistantMessage
    IN (r.pc = "done" /\ r.op = "send" /\ r.result.status = "ok")
       => /\ um = r.userMsg /\ am = r.asstMsg
          /\ um.role = "user" /\ um.threadId = r.thread /\ um.content = Trim(r.prompt)
          /\ am.role = "assistant" /\ am.threadId = r.thread
          /\ am.content = cleanResponse(r.text)
          /\ um.id # am.id /\ r.ids = {um.id, am.id}
          /\ um.createdAt < am.createdAt

C10_Step ==
  \A p \in Procs :
    LET r == procs[p]
    IN /\ (r.op = "send" /\ r.pc = "saveUser" /\ procs'[p].pc = "http")
            => /\ procs'[p].userMsg \notin messages
               /\ messages' = messages \cup {procs'[p].userMsg}
               /\ threads' = threads
       /\ (r.op = "send" /\ r.pc = "saveAsst" /\ procs'[p].pc = "touch")
            => /\ r.userMsg # NoMsg
               /\ procs'[p].asstMsg \notin messages
               /\ messages' = messages \cup {procs'[p].asstMsg}
               /\ threads' = threads
       /\ (r.op = "send" /\ r.pc = "touch" /\ procs'[p].pc = "done")
            => /\ procs'[p].result.status = "ok"
               /\ r.userMsg # NoMsg /\ r.asstMsg # NoMsg
               /\ messages' = messages
               /\ r.touchDate > r.upd0
               /\ r.touchDate > r.asstMsg.createdAt
               /\ \A t \in threads' : t.id = r.thread => t.updatedAt = r.touchDate
               /\ {t \in threads' : t.id # r.thread} = {t \in threads : t.id # r.thread}
       /\ (r.op = "send" /\ r.pc # "touch" /\ procs'[p] # r) => threads' = threads
       /\ (r.op = "send" /\ procs'[p].pc = "done" /\ r.pc # "done"
           /\ procs'[p].result.status = "ok") => r.pc = "touch"

C10_SuccessfulSendOrder == []C10_Inv /\ [][C10_Step]_vars

C10_Witness ==
  \E p \in Procs :
    LET r == procs[p]
    IN /\ r.pc = "done" /\ r.op = "send" /\ r.result.status = "ok"
       /\ r.result.userMessage \in messages /\ r.result.assistantMessage \in messages
       /\ r.prompt # Trim(r.prompt) /\ r.text # cleanResponse(r.text)
       /\ \E t \in threads : t.id = r.thread /\ t.updatedAt > r.upd0
                             /\ t.updatedAt > r.result.assistantMessage.createdAt

\* the n latest elements of a sequence, in its order
MostRecent(seq, n) == IF Len(seq) <= n THEN seq ELSE SubSeq(seq, Len(seq) - n + 1, Len(seq))

\* the stored messages of r's thread that r did not write itself, oldest first
PriorMessages(r) == SortAsc({m \in ThreadMessages(r.thread) : m.id \notin r.ids})

\* C11 (as claimed): while a send to a thread with more than 10 stored prior
\* messages waits for the provider, the contents of its request are the 10
\* most recent prior messages, oldest first, followed by the trimmed prompt
\* as the last user turn.
C11_ContextMostRecent10 ==
  \A p \in Procs :
    LET r == procs[p]
        prior == PriorMessages(r)
        recent == MostRecent(prior, ContextLimit)
    IN (r.op = "send" /\ r.pc = "http" /\ Len(prior) > ContextLimit)
       => r.contents =
            buildConversationContext(r.prompt,
              [i \in 1..Len(recent) |-> [role |-> recent[i].role,
                                         content |-> recent[i].content]])

\* the messages of the errors validateInput rejects a prompt with
ValidationMessages ==
  {"Prompt is required and must be a string", "Prompt cannot be empty",
   "Prompt exceeds maximum length of 30,000 characters"}

\* C12: a call of getChatResponse with a prompt that is empty after trimming
\* or longer than 30000 characters ends at once with the error of
\* validateInput; it never makes an HTTP attempt and never sleeps.
C12_InvalidPromptRejected ==
  \A p \in Procs :
    LET r == procs[p]
    IN (r.op = "chat" /\ (Len(Trim(r.prompt)) = 0 \/ Len(r.prompt) > MaxPromptLen))
       => /\ r.pc = "done"
          /\ r.stage = "validate"
          /\ r.result.status = "error"
          /\ r.result.error.cls = "Error"
          /\ r.result.error.msg \in ValidationMessages
          /\ r.attempts = 0 /\ r.sleeps = 0

C12_Witness ==
  \E p \in Procs :
    /\ procs[p].pc = "done" /\ procs[p].op = "chat"
    /\ Len(procs[p].prompt) = MaxPromptLen + 1
    /\ procs[p].attempts = 0
    /\ procs[p].result.error =
         PlainError("Prompt exceeds maximum length of 30,000 characters")

\* C13: cleanResponse is idempotent: cleaning a cleaned text gives the
\* cleaned text.
C13_CleanIdempotent ==
  \A p \in Procs :
    (procs[p].op = "clean" /\ procs[p].pc = "done")
      => /\ procs[p].result.answer = cleanResponse(procs[p].prompt)
         /\ procs[p].text = procs[p].result.answer

C13_Witness ==
  \E p \in Procs :
    /\ procs[p].op = "clean" /\ procs[p].pc = "done"
    /\ procs[p].prompt = <<" ", "a", "\r", "\n", "a">>
    /\ procs[p].result.answer = <<"a", "\n", "a">>
    /\ procs[p].text = <<"a", "\n", "a">>

\* C14: a 200 body without candidates or whose first candidate has no
\* content parts fails normalization with the invalid-response error, a body
\* whose text is empty or blank fails it with the empty-response error, and
\* nothing is returned or saved for either; an answer that is returned and an
\* assistant message that is stored are not empty after trimming.
C14_NormalizationRejects ==
  /\ \A p \in Procs :
       LET r == procs[p]
       IN (r.pc = "done" /\ r.op \in {"chat", "send"} /\ r.last = "200")
          => /\ r.shape \in {"nocandidates", "noparts"}
                  => /\ r.thrown.code = "INVALID_RESPONSE"
                     /\ r.stage = "normalize" /\ r.result.status = "error"
                     /\ r.asstMsg = NoMsg
             /\ (r.shape = "ok" /\ IsBlank(r.text))
                  => /\ r.thrown.code = "EMPTY_RESPONSE"
                     /\ r.stage = "normalize" /\ r.result.status = "error"
                     /\ r.asstMsg = NoMsg
             /\ (r.result.status = "ok" /\ r.op = "chat")
                  => Len(Trim(r.result.answer)) > 0
             /\ (r.result.status = "ok" /\ r.op = "send")
                  => /\ r.result.assistantMessage.role = "assistant"
                     /\ Len(Trim(r.result.assistantMessage.content)) > 0
  /\ \A m \in messages : m.role = "assistant" => Len(Trim(m.content)) > 0

C14_Witness ==
  \E p \in Procs :
    LET r == procs[p]
    IN /\ r.pc = "done" /\ r.op = "send" /\ r.last = "200"
       /\ r.shape = "ok" /\ r.text = <<" ", "\n">>
       /\ r.thrown = GeminiError("Empty response generated", 500, "EMPTY_RESPONSE")
       /\ r.result.status = "error"
       /\ \E m \in messages : m.role = "assistant"

\* C15 (as claimed): after a send that stored at least one message into its
\* thread, whether it succeeded or failed afterwards, the thread's updatedAt
\* is later than it was when the call looked the thread up.
C15_UpdatedAtBumped ==
  \A p \in Procs :
    LET r == procs[p]
    IN (r.pc = "done" /\ r.op = "send" /\ r.userMsg # NoMsg /\ r.userMsg \in messages)
       => \A t \in threads : t.id = r.thread => t.updatedAt > r.upd0

\* C16 (as claimed): once deleteThread of the owner has returned successfully,
\* its thread does not exist and no message of that thread exists; the steps
\* of the delete leave the threads and messages of other thread ids as they
\* were.
C16_Inv ==
  \A p \in Procs :
    LET r == procs[p]
    IN (r.pc = "done" /\ r.op = "delete" /\ r.result.status = "ok")
       => /\ \A t \in threads : t.id # r.thread
          /\ ThreadMessages(r.thread) = {}

C16_Step ==
  \A p \in Procs :
    (procs[p].op = "delete" /\ procs'[p] # procs[p])
      => /\ {t \in threads' : t.id # procs[p].thread} = {t \in threads : t.id # procs[p].thread}
         /\ {m \in messages' : m.threadId # procs[p].thread}
              = {m \in messages : m.threadId # procs[p].thread}

C16_DeleteCascades == []C16_Inv /\ [][C16_Step]_vars

\* C17 (as claimed): a chat request whose attempts all failed with a 5xx
\* status, all with a network error, or all with a timeout, until the retry
\* budget was exhausted, is answered by the chat endpoint with HTTP 503.
C17_ExhaustedGives503 ==
  \A p \in Procs :
    LET r == procs[p]
    IN (r.pc = "done" /\ r.op = "chat" /\ Sanitized(r.prompt) /\ ~r.changed
        /\ r.uniform \in {"5xx", "network", "timeout"}
        /\ r.attempts = r.cfg0.maxRetries + 1)
       => /\ r.result.status = "error"
          /\ chatHandlerStatus(r.result.error) = 503

\* C18 (as claimed): two calls of getChatResponse with the same prompt and
\* configuration whose attempts were answered with the same status codes,
\* whatever the message texts of the provider's error bodies, end with the
\* same error for their callers.
C18_NoProviderTextLeak ==
  \A p, q \in Procs :
    LET r == procs[p]
        t == procs[q]
    IN (/\ r.pc = "done" /\ t.pc = "done" /\ r.op = "chat" /\ t.op = "chat"
        /\ r.prompt = t.prompt /\ r.cfg0 = t.cfg0
        /\ r.uniform \in {"4xx", "429", "5xx"} /\ t.uniform = r.uniform
        /\ r.attempts = t.attempts /\ r.thrown.status = t.thrown.status)
       => r.result.error = t.result.error

\* C19: a health check always ends with a result, never with a raised error:
\* online exactly when callGeminiAPI returned (its last attempt got a 200
\* with a decodable body), without an error text, and offline together with
\* the message of the error callGeminiAPI threw in every other case.
C19_HealthNeverRaises ==
  \A p \in Procs :
    LET r == procs[p]
    IN (r.op = "health" /\ r.pc = "done")
       => /\ r.result.status \in {"online", "offline"}
          /\ r.result.status = "online" <=> r.last = "200"
          /\ r.result.status = "online" => (r.result.error = NoError /\ r.thrown = NoError)
          /\ r.result.status = "offline"
               => /\ r.thrown # NoError
                  /\ r.result.error = PlainError(r.thrown.msg)
                  /\ r.result.error.msg # "none"

C19_Witness ==
  \E p \in Procs :
    /\ procs[p].op = "health" /\ procs[p].pc = "done"
    /\ procs[p].last = "200garbage"
    /\ procs[p].result.status = "offline"
    /\ procs[p].result.error = PlainError(JsonSyntaxMsg)

\* C20: a call of findOrCreateUser whose lookup meets a user with the
\* profile's Google ID returns that stored user and neither creates nor
\* changes a user; the user store never holds two users with the same Google
\* ID.
C20_Inv ==
  /\ \A u, v \in users : u.googleId = v.googleId => u = v
  /\ \A p \in Procs :
       (logins[p].pc = "done" /\ logins[p].how = "existing")
         => /\ logins[p].status = "ok"
            /\ logins[p].result.googleId = logins[p].profile.id

C20_Step ==
  \A p \in Procs :
    (/\ logins[p].pc = "findGoogle" /\ logins'[p] # logins[p]
     /\ \E u \in users : u.googleId = logins[p].profile.id)
    => /\ logins'[p].pc = "done" /\ logins'[p].status = "ok"
       /\ logins'[p].result \in users
       /\ logins'[p].result.googleId = logins[p].profile.id
       /\ users' = users /\ nextUser' = nextUser

C20_FindOrCreateUnique == []C20_Inv /\ [][C20_Step]_vars

C20_Witness ==
  \E p, q \in Procs :
    /\ logins[p].pc = "done" /\ logins[p].how = "existing"
    /\ logins[p].result \in users /\ logins[p].result.googleId = logins[p].profile.id
    /\ logins[q].pc = "done" /\ logins[q].how = "created" /\ logins[q].status = "error"
    /\ logins[q].profile.id = logins[p].profile.id

\* C21 (as claimed): a generate call under an unchanged configuration whose
\* latest attempt met a network error or a timeout sleeps retryDelay * 2^a
\* after an attempt a below maxRetries, and once the budget is exhausted it
\* fails with that error classified as network error or as timeout error.
C21_TransientRetried ==
  \A p \in Procs :
    LET r == procs[p]
    IN (r.op = "chat" /\ ~r.changed /\ r.cfg0.maxRetries # UndefNum
        /\ r.last \in {"network", "timeout"})
       => /\ r.pc = "sleep" => /\ r.attempt < r.cfg0.maxRetries
                               /\ r.delay = r.cfg0.retryDelay * Pow2(r.attempt)
          /\ r.pc = "done"
               => /\ r.attempts = r.cfg0.maxRetries + 1
                  /\ r.result.status = "error"
                  /\ r.last = "network" => handleGeminiError(r.thrown).code = "NETWORK_ERROR"
                  /\ r.last = "timeout" => handleGeminiError(r.thrown).code = "TIMEOUT_ERROR"

\* C22 (as claimed): an attempt that fails in any other way than with 429, a
\* 5xx status, a network error or a timeout (a status outside 200, 4xx and
\* 5xx, an exception raised while the response is handled) ends the call at
\* once: no sleep and no further attempt follow it.
C22_OnlyTransientRetried ==
  \A p \in Procs :
    LET r == procs[p]
    IN (r.op = "chat" /\ r.last \in {"other", "200garbage"})
       => /\ r.pc = "done"
          /\ r.result.status = "error"
          /\ r.sleeps = r.attempts - 1

\* C23 (as claimed): the backoff delay a generate call sleeps before its
\* attempt number k (0-indexed) is retryDelay * 2^k.
C23_DelayBeforeAttemptK ==
  \A p \in Procs :
    LET r == procs[p]
    IN (r.op = "chat" /\ r.pc = "sleep")
       => r.delay = r.cfg0.retryDelay * Pow2(r.attempts)

\* C23 (amended): the backoff delay a generate call sleeps after its failed
\* attempt number k (0-indexed), that is before attempt k+1, is
\* retryDelay * 2^k.
C23_DelayAfterAttemptK ==
  \A p \in Procs :
    LET r == procs[p]
    IN (r.op = "chat" /\ r.pc = "sleep")
       => /\ r.attempt = r.attempts - 1
          /\ r.delay = r.cfg0.retryDelay * Pow2(r.attempt)

C23_Witness ==
  \E p \in Procs :
    /\ procs[p].op = "chat" /\ procs[p].pc = "sleep"
    /\ procs[p].attempts = 2 /\ procs[p].sleeps = 2
    /\ procs[p].delay = 2000

\* C24 (as claimed): a send whose prompt is empty after trimming or longer
\* than 30000 characters fails before any write: it makes no provider
\* attempt, and no message of the call is in the store.
C24_InvalidPromptNoWrite ==
  \A p \in Procs :
    LET r == procs[p]
    IN (r.pc = "done" /\ r.op = "send" /\ r.found = "owned"
        /\ (Len(Trim(r.prompt)) = 0 \/ Len(r.prompt) > MaxPromptLen))
       => /\ r.result.status = "error"
          /\ r.attempts = 0
          /\ r.writes = 0
          /\ \A m \in messages : m.id \notin r.ids

\* C25 (as claimed): under every interleaving of sends and deletes, every
\* stored message belongs to a thread that exists, and a send that reports
\* success did so for a thread that exists when it is reported.
C25_Inv ==
  \A m \in messages : \E t \in threads : t.id = m.threadId

C25_Step ==
  \A p \in Procs :
    (procs[p].op = "send" /\ Ends(p) /\ procs'[p].result.status = "ok")
      => \E t \in threads' : t.id = procs[p].thread /\ t.userId = procs[p].user

C25_NoOrphanMessages == []C25_Inv /\ [][C25_Step]_vars

\* C26 (as claimed): every change of the configuration is the effect of an
\* update with a valid configuration object c that sets the fields c
\* supplies and leaves every other field, retryDelay included, as it was.
C26_Step ==
  config' # config
    => \E c \in ConfigUpdates :
         /\ validateConfig(c)
         /\ \A k \in ConfigKeys :
              config'[k] = IF k \in DOMAIN c THEN c[k] ELSE config[k]

C26_OnlySuppliedFieldsChange == [][C26_Step]_vars

\* a key of a configuration holds a value, not undefined
Defined(cfg, k) == cfg[k] # Undefined(k)

\* C27 (as claimed): the configuration always holds a defined model and
\* defined numbers inside the validated ranges, and a generate call on a
\* valid prompt that has ended made at least one HTTP attempt and did not
\* fail with 'Max retries exceeded'.
C27_ConfigStaysValid ==
  /\ \A k \in ConfigKeys : Defined(config, k)
  /\ validateConfig(config)
  /\ \A p \in Procs :
       LET r == procs[p]
       IN (r.op = "chat" /\ r.pc = "done" /\ validateInput(r.prompt) = "none")
          => /\ r.attempts >= 1
             /\ r.thrown.msg # "Max retries exceeded"

\* the number of attempts a configuration allows
Budget(cfg) == IF cfg.maxRetries = UndefNum THEN 0 ELSE cfg.maxRetries + 1

\* C28: under a configuration that is not changed while it runs, a generate
\* call makes at most maxRetries+1 HTTP attempts and at most maxRetries
\* backoff sleeps, each sleep is followed by an attempt (an ended call slept
\* once less than it attempted), and every call that waits for an answer or
\* sleeps eventually ends with a response or an error.
C28_Inv ==
  \A p \in Procs :
    LET r == procs[p]
    IN (r.op = "chat" /\ ~r.changed)
       => /\ r.attempts <= Budget(r.cfg0)
          /\ r.attempts > 0 => r.sleeps <= r.attempts
          /\ r.sleeps < Budget(r.cfg0) \/ r.sleeps = 0
          /\ r.pc = "sleep" => r.attempts < Budget(r.cfg0)
          /\ r.pc = "done"
               => /\ r.sleeps = (IF r.attempts = 0 THEN 0 ELSE r.attempts - 1)
                  /\ r.result.status \in {"ok", "error"}

C28_Terminates ==
  \A p \in ProviderProcs :
    (procs[p].op = "chat" /\ procs[p].pc \in {"http", "sleep"})
      ~> (procs[p].pc = "done")

C28_BoundedAndTerminates == []C28_Inv /\ C28_Terminates

C28_Witness ==
  \E p \in Procs :
    LET r == procs[p]
    IN /\ r.op = "chat" /\ r.pc = "done" /\ ~r.changed
       /\ r.uniform = "mixed" /\ r.last = "timeout"
       /\ r.cfg0.maxRetries = 2 /\ r.attempts = 3 /\ r.sleeps = 2
       /\ r.result.status = "error"

\* the errors a final attempt with an outcome of class c can produce
FinalErrors(c) ==
  {TryBlock(resp, 0, [maxRetries |-> 0]).error : resp \in {x \in Responses : Class(x) = c}}

\* C29: when a generate call whose configuration is not changed while it runs
\* fails after using its whole attempt budget, having retried at least once,
\* on a retryable failure (429, 5xx, network error, timeout), the error that
\* callGeminiAPI throws is the one its final attempt produced: the
\* rate-limit error after a final 429, the 5xx API error after a final 5xx,
\* the transport error after a final network error or timeout.
C29_FinalAttemptErrorSurfaces ==
  \A p \in Procs :
    LET r == procs[p]
    IN (r.op = "chat" /\ r.pc = "done" /\ ~r.changed
        /\ r.cfg0.maxRetries # UndefNum /\ r.cfg0.maxRetries >= 1
        /\ r.attempts = r.cfg0.maxRetries + 1
        /\ r.last \in {"429", "5xx", "network", "timeout"})
       => /\ r.result.status = "error"
          /\ r.stage = "generate"
          /\ r.thrown \in FinalErrors(r.last)
          /\ r.last = "429" => r.thrown = GeminiAPIError("Rate limit exceeded", 429)
          /\ r.last = "5xx" => r.thrown.cls = "GeminiAPIError" /\ r.thrown.status >= 500
          /\ r.last \in {"network", "timeout"} => r.thrown.cls = "Error"

C29_Witness ==
  \E p \in Procs :
    LET r == procs[p]
    IN /\ r.op = "chat" /\ r.pc = "done" /\ ~r.changed
       /\ r.cfg0.maxRetries = 2 /\ r.attempts = 3 /\ r.sleeps = 2
       /\ r.uniform = "mixed" /\ r.last = "5xx"
       /\ r.thrown.cls = "GeminiAPIError" /\ r.thrown.status >= 500

\* the messages returned to the callers of two sends
Returned(r1, r2) ==
  {r1.result.userMessage, r1.result.assistantMessage,
   r2.result.userMessage, r2.result.assistantMessage}

\* C30: when two sendMessageToThread calls on the same thread have both
\* succeeded and the thread is still there, the four messages returned are
\* four different documents of that thread, each call got the two documents
\* it built itself (its user message with its own trimmed prompt and its
\* assistant message), the two calls left no other document behind, and when
\* no other request built a message the thread holds exactly these four.
\* Every update of the thread that is applied sets updatedAt to the date of
\* its own request, whatever value the thread holds: the update applied last
\* wins.
C30_Inv ==
  \A p, q \in Procs :
    LET r1 == procs[p]
        r2 == procs[q]
        four == Returned(r1, r2)
    IN (/\ p # q
        /\ r1.op = "send" /\ r1.pc = "done" /\ r1.result.status = "ok"
        /\ r2.op = "send" /\ r2.pc = "done" /\ r2.result.status = "ok"
        /\ r1.thread = r2.thread
        /\ \E t \in threads : t.id = r1.thread)
       => /\ Cardinality({m.id : m \in four}) = 4
          /\ four \subseteq ThreadMessages(r1.thread)
          /\ \A r \in {r1, r2} :
               /\ r.ids = {r.result.userMessage.id, r.result.assistantMessage.id}
               /\ r.result.userMessage.role = "user"
               /\ r.result.userMessage.content = Trim(r.prompt)
               /\ r.result.assistantMessage.role = "assistant"
               /\ r.writes = 3
          /\ {m \in messages : m.id \in r1.ids \cup r2.ids} = four
          /\ nextMsg = 5 => ThreadMessages(r1.thread) = four

C30_Step ==
  \A p \in Procs :
    (procs[p].pc = "touch" /\ procs'[p].pc = "done")
      => \A t \in threads :
           t.id = procs[p].thread
             => \E t2 \in threads' :
                  t2 = [t EXCEPT !.updatedAt = procs[p].touchDate]

C30_ConcurrentSendsKeepWrites == []C30_Inv /\ [][C30_Step]_vars

C30_Witness ==
  \E p, q \in Procs :
    LET r1 == procs[p]
        r2 == procs[q]
    IN /\ p # q
       /\ r1.op = "send" /\ r1.pc = "done" /\ r1.result.status = "ok"
       /\ r2.op = "send" /\ r2.pc = "done" /\ r2.result.status = "ok"
       /\ r1.thread = r2.thread
       /\ ThreadMessages(r1.thread) = Returned(r1, r2)
       /\ Cardinality(ThreadMessages(r1.thread)) = 4
       /\ r1.result.userMessage.createdAt < r2.result.userMessage.createdAt
       /\ r2.result.userMessage.createdAt < r1.result.assistantMessage.createdAt
       /\ \E t \in threads : t.id = r1.thread /\ t.updatedAt < now - 1

====
